---- MODULE Spec2Model ----
(***************************************************************************)
(* Model of the monkey-lang lexer (package lexer, larger snapshot) and of  *)
(* the token package.  Bytes are modelled by their integer codes, Go       *)
(* strings by sequences of byte codes (TLA+ index i+1 is Go index i).      *)
(***************************************************************************)
EXTENDS Integers, Sequences, FiniteSets, TLC

VARIABLES input, position, readPosition, ch, trace, reads, slices,
          advances, peeks, small, traceSmall

vars == <<input, position, readPosition, ch, trace, reads, slices,
          advances, peeks, small, traceSmall>>

(* ---------------- bounds ---------------- *)
MaxLen == 3
MaxCalls == 5

(* Byte codes used to build inputs: NUL, tab, LF, CR, space, '!', '-',     *)
(* '5', ';', '=', '@', 'L', '_', 'e', 'f', 'l', 'n', 't', 'x', 0xC8.        *)
Alphabet == {0, 9, 10, 13, 32, 33, 45, 53, 59, 61, 64, 76, 95,
             101, 102, 108, 110, 116, 120, 200}

Inputs == UNION {[1..n -> Alphabet] : n \in 0..MaxLen}

(* Byte codes for comparing the two snapshots: NUL, space, '!', '*', '-',  *)
(* '/', '5', ';', '<', '=', '>', '@', 'x'.                                 *)
AlphabetPair == {0, 32, 33, 42, 45, 47, 53, 59, 60, 61, 62, 64, 120}

InputsPair == UNION {[1..n -> AlphabetPair] : n \in 0..MaxLen}

(* ---------------- package token ---------------- *)
ILLEGAL == "ILLEGAL"
EOF == "EOF"
IDENT == "IDENT"
INT == "INT"
ASSIGN == "="
PLUS == "+"
COMMA == ","
SEMICOLON == ";"
LPAREN == "("
RPAREN == ")"
LBRACE == "{"
RBRACE == "}"
FUNCTION == "FUNCTION"
LET_ == "LET"
(* token kinds used by the lexer whose declarations are not in token.go *)
MINUS == "Minus"
BANG == "Bang"
ASTERISK == "Asterisk"
SLASH == "Slash"
LT == "LessThan"
GT == "GreaterThan"
EQ == "Equal"
NOT_EQ == "NotEqual"

(* "fn" and "let" as byte strings *)
keywords == (<<102, 110>> :> FUNCTION) @@ (<<108, 101, 116>> :> LET_)

LookupIdent_prefix(ident) ==
    IF \E k \in DOMAIN keywords :
          Len(ident) >= Len(k) /\ SubSeq(ident, 1, Len(k)) = k
    THEN keywords[CHOOSE k \in DOMAIN keywords :
          Len(ident) >= Len(k) /\ SubSeq(ident, 1, Len(k)) = k]
    ELSE IDENT

LookupIdent(ident) ==
    IF ident \in DOMAIN keywords THEN keywords[ident] ELSE IDENT

(* ---------------- package lexer ---------------- *)
(* Go's string(ch) for a byte ch: the UTF-8 encoding of the code point ch. *)
byteToString(c) ==
    IF c < 128 THEN <<c>> ELSE <<192 + (c \div 64), 128 + (c % 64)>>

newToken(tokenType, c) == [Type |-> tokenType, Literal |-> byteToString(c)]

newTwoCharToken(tokenType, ch1, ch2) ==
    [Type |-> tokenType, Literal |-> byteToString(ch1) \o byteToString(ch2)]

(* l.input[i]; the index is recorded by the caller, an index outside the   *)
(* string is a run-time panic in Go and yields 0 here.                     *)
byteAt(s, i) == IF 0 <= i /\ i < Len(s) THEN s[i + 1] ELSE 0

(* l.input[a:b] *)
sliceOf(s, a, b) == SubSeq(s, a + 1, b)

readChar_offByOne(l) ==
    [l EXCEPT !.ch = IF l.readPosition > Len(l.input) THEN 0
                     ELSE byteAt(l.input, l.readPosition),
              !.reads = IF l.readPosition > Len(l.input) THEN l.reads
                        ELSE l.reads \cup {l.readPosition},
              !.position = l.readPosition,
              !.readPosition = l.readPosition + 1,
              !.advances = l.advances + 1]

(* position and readPosition assigned in the wrong order *)
readChar_swapped(l) ==
    [l EXCEPT !.ch = IF l.readPosition >= Len(l.input) THEN 0
                     ELSE byteAt(l.input, l.readPosition),
              !.reads = IF l.readPosition >= Len(l.input) THEN l.reads
                        ELSE l.reads \cup {l.readPosition},
              !.readPosition = l.readPosition + 1,
              !.position = l.readPosition + 1,
              !.advances = l.advances + 1]

(* readPosition stepped by two *)
readChar_skip(l) ==
    [l EXCEPT !.ch = IF l.readPosition >= Len(l.input) THEN 0
                     ELSE byteAt(l.input, l.readPosition),
              !.reads = IF l.readPosition >= Len(l.input) THEN l.reads
                        ELSE l.reads \cup {l.readPosition},
              !.position = l.readPosition,
              !.readPosition = l.readPosition + 2,
              !.advances = l.advances + 1]

(* advances counts the calls of readChar *)
readChar(l) ==
    [l EXCEPT !.ch = IF l.readPosition >= Len(l.input) THEN 0
                     ELSE byteAt(l.input, l.readPosition),
              !.reads = IF l.readPosition >= Len(l.input) THEN l.reads
                        ELSE l.reads \cup {l.readPosition},
              !.position = l.readPosition,
              !.readPosition = l.readPosition + 1,
              !.advances = l.advances + 1]

(* the zero-valued Lexer built by &Lexer{input: input} *)
zeroLexer(in) ==
    [input |-> in, position |-> 0, readPosition |-> 0, ch |-> 0,
     reads |-> {}, slices |-> {}, advances |-> 0, peeks |-> {}]

New_noAdvance(in) == zeroLexer(in)

New(in) == readChar(zeroLexer(in))

isDigit(c) == 48 <= c /\ c <= 57

isLetter_alnum(c) ==
    (97 <= c /\ c <= 122) \/ (65 <= c /\ c <= 90) \/ c = 95
      \/ (48 <= c /\ c <= 57)

isLetter(c) == (97 <= c /\ c <= 122) \/ (65 <= c /\ c <= 90) \/ c = 95

RECURSIVE skipWhitespace_noCR(_)
skipWhitespace_noCR(l) ==
    IF l.ch = 32 \/ l.ch = 9 \/ l.ch = 10
    THEN skipWhitespace_noCR(readChar(l))
    ELSE l

RECURSIVE skipWhitespace(_)
skipWhitespace(l) ==
    IF l.ch = 32 \/ l.ch = 9 \/ l.ch = 10 \/ l.ch = 13
    THEN skipWhitespace(readChar(l))
    ELSE l

peekChar_current(l) ==
    [val |-> byteAt(l.input, l.position), idx |-> {l.position}, l |-> l]

(* a lookahead that consumes the byte it looks at *)
peekChar_advancing(l) ==
    LET a == readChar(l)
    IN [val |-> a.ch, idx |-> {}, l |-> a]

(* the byte returned, the index of l.input it read, if any, and the lexer  *)
(* after the call                                                          *)
peekChar(l) ==
    IF l.readPosition >= Len(l.input)
    THEN [val |-> 0, idx |-> {}, l |-> l]
    ELSE [val |-> byteAt(l.input, l.readPosition), idx |-> {l.readPosition},
          l |-> l]

(* the cursor fields of a lexer *)
cursor(l) == <<l.input, l.position, l.readPosition, l.ch>>

RECURSIVE digitRun(_)
digitRun(l) == IF isDigit(l.ch) THEN digitRun(readChar(l)) ELSE l

RECURSIVE letterRun(_)
letterRun(l) == IF isLetter(l.ch) THEN letterRun(readChar(l)) ELSE l

readNumber_oneDigit(l) ==
    LET e == IF isDigit(l.ch) THEN readChar(l) ELSE l
    IN [l |-> [e EXCEPT !.slices = e.slices \cup {<<l.position, e.position>>}],
        str |-> sliceOf(l.input, l.position, e.position)]

readNumber(l) ==
    LET e == digitRun(l)
    IN [l |-> [e EXCEPT !.slices = e.slices \cup {<<l.position, e.position>>}],
        str |-> sliceOf(l.input, l.position, e.position)]

readIdentifier(l) ==
    LET e == letterRun(l)
    IN [l |-> [e EXCEPT !.slices = e.slices \cup {<<l.position, e.position>>}],
        str |-> sliceOf(l.input, l.position, e.position)]

(* the one-character cases of the switch other than '=' and '!' *)
singleChar == (43 :> PLUS) @@ (45 :> MINUS) @@ (42 :> ASTERISK)
              @@ (47 :> SLASH) @@ (60 :> LT) @@ (62 :> GT) @@ (44 :> COMMA)
              @@ (59 :> SEMICOLON) @@ (40 :> LPAREN) @@ (41 :> RPAREN)
              @@ (123 :> LBRACE) @@ (125 :> RBRACE)

(* two-character lookahead of the '=' and '!' cases *)
twoCharCase(l, one, two) ==
    LET p == peekChar(l)
        l1 == [p.l EXCEPT !.reads = p.l.reads \cup p.idx,
                          !.peeks = p.l.peeks \cup
                             {[ch |-> l.ch, readPosition |-> l.readPosition,
                               val |-> p.val,
                               same |-> cursor(p.l) = cursor(l)]}]
    IN IF p.val = 61
       THEN LET l2 == readChar(l1)
            IN [l |-> l2, tok |-> newTwoCharToken(two, l.ch, l2.ch),
                returned |-> FALSE]
       ELSE [l |-> l1, tok |-> newToken(one, l.ch), returned |-> FALSE]

(* the switch statement of NextToken; returned = the early return *)
switchCh(l) ==
    IF l.ch = 61 THEN twoCharCase(l, ASSIGN, EQ)
    ELSE IF l.ch = 33 THEN twoCharCase(l, BANG, NOT_EQ)
    ELSE IF l.ch \in DOMAIN singleChar
    THEN [l |-> l, tok |-> newToken(singleChar[l.ch], l.ch), returned |-> FALSE]
    ELSE IF l.ch = 0
    THEN [l |-> l, tok |-> [Type |-> EOF, Literal |-> <<>>], returned |-> FALSE]
    ELSE IF isLetter(l.ch)
    THEN LET r == readIdentifier(l)
         IN [l |-> r.l, tok |-> [Type |-> LookupIdent(r.str), Literal |-> r.str],
             returned |-> TRUE]
    ELSE IF isDigit(l.ch)
    THEN LET r == readNumber(l)
         IN [l |-> r.l, tok |-> [Type |-> INT, Literal |-> r.str],
             returned |-> TRUE]
    ELSE [l |-> l, tok |-> newToken(ILLEGAL, l.ch), returned |-> FALSE]

nextToken_noAdvance(l) ==
    LET s == skipWhitespace(l)
        r == switchCh(s)
    IN [l |-> r.l, tok |-> r.tok, start |-> s.position]

(* NextToken: the lexer after the call, the token returned, and the        *)
(* position at which the token starts (after skipWhitespace)               *)
nextToken(l) ==
    LET s == skipWhitespace(l)
        r == switchCh(s)
    IN [l |-> IF r.returned THEN r.l ELSE readChar(r.l),
        tok |-> r.tok, start |-> s.position]

(* ---------------- package lexer, smaller snapshot ---------------- *)
readCharSmall(l) ==
    [l EXCEPT !.ch = IF l.readPosition >= Len(l.input) THEN 0
                     ELSE byteAt(l.input, l.readPosition),
              !.reads = IF l.readPosition >= Len(l.input) THEN l.reads
                        ELSE l.reads \cup {l.readPosition},
              !.position = l.readPosition,
              !.readPosition = l.readPosition + 1,
              !.advances = l.advances + 1]

NewSmall(in) == readCharSmall(zeroLexer(in))

isDigitSmall(c) == 48 <= c /\ c <= 57

isLetterSmall(c) == (97 <= c /\ c <= 122) \/ (65 <= c /\ c <= 90) \/ c = 95

RECURSIVE skipWhitespaceSmall(_)
skipWhitespaceSmall(l) ==
    IF l.ch = 32 \/ l.ch = 9 \/ l.ch = 10 \/ l.ch = 13
    THEN skipWhitespaceSmall(readCharSmall(l))
    ELSE l

RECURSIVE digitRunSmall(_)
digitRunSmall(l) ==
    IF isDigitSmall(l.ch) THEN digitRunSmall(readCharSmall(l)) ELSE l

RECURSIVE letterRunSmall(_)
letterRunSmall(l) ==
    IF isLetterSmall(l.ch) THEN letterRunSmall(readCharSmall(l)) ELSE l

readNumberSmall(l) ==
    LET e == digitRunSmall(l)
    IN [l |-> [e EXCEPT !.slices = e.slices \cup {<<l.position, e.position>>}],
        str |-> sliceOf(l.input, l.position, e.position)]

readIdentifierSmall(l) ==
    LET e == letterRunSmall(l)
    IN [l |-> [e EXCEPT !.slices = e.slices \cup {<<l.position, e.position>>}],
        str |-> sliceOf(l.input, l.position, e.position)]

newTokenSmall(tokenType, c) ==
    [Type |-> tokenType, Literal |-> byteToString(c)]

(* a switch that also knows '-' *)
singleCharSmall_minus ==
    (61 :> ASSIGN) @@ (59 :> SEMICOLON) @@ (40 :> LPAREN) @@ (41 :> RPAREN)
    @@ (44 :> COMMA) @@ (43 :> PLUS) @@ (123 :> LBRACE) @@ (125 :> RBRACE)
    @@ (45 :> MINUS)

(* the one-character cases of the smaller snapshot's switch *)
singleCharSmall ==
    (61 :> ASSIGN) @@ (59 :> SEMICOLON) @@ (40 :> LPAREN) @@ (41 :> RPAREN)
    @@ (44 :> COMMA) @@ (43 :> PLUS) @@ (123 :> LBRACE) @@ (125 :> RBRACE)

switchChSmall(l) ==
    IF l.ch \in DOMAIN singleCharSmall
    THEN [l |-> l, tok |-> newTokenSmall(singleCharSmall[l.ch], l.ch),
          returned |-> FALSE]
    ELSE IF l.ch = 0
    THEN [l |-> l, tok |-> [Type |-> EOF, Literal |-> <<>>], returned |-> FALSE]
    ELSE IF isLetterSmall(l.ch)
    THEN LET r == readIdentifierSmall(l)
         IN [l |-> r.l, tok |-> [Type |-> LookupIdent(r.str), Literal |-> r.str],
             returned |-> TRUE]
    ELSE IF isDigitSmall(l.ch)
    THEN LET r == readNumberSmall(l)
         IN [l |-> r.l, tok |-> [Type |-> INT, Literal |-> r.str],
             returned |-> TRUE]
    ELSE [l |-> l, tok |-> newTokenSmall(ILLEGAL, l.ch), returned |-> FALSE]

nextTokenSmall(l) ==
    LET s == skipWhitespaceSmall(l)
        r == switchChSmall(s)
    IN [l |-> IF r.returned THEN r.l ELSE readCharSmall(r.l),
        tok |-> r.tok, start |-> s.position]

Lexer == [input |-> input, position |-> position, readPosition |-> readPosition,
          ch |-> ch, reads |-> reads, slices |-> slices,
          advances |-> advances, peeks |-> peeks]

(* the state after New(in), for both snapshots *)
Start(in) ==
    LET l == New(in)
    IN /\ input = l.input
       /\ position = l.position
       /\ readPosition = l.readPosition
       /\ ch = l.ch
       /\ reads = l.reads
       /\ slices = l.slices
       /\ advances = l.advances
       /\ peeks = l.peeks
       /\ trace = <<>>
       /\ small = NewSmall(in)
       /\ traceSmall = <<>>

Init == \E in \in Inputs : Start(in)

NextToken ==
    /\ Len(trace) < MaxCalls
    /\ LET r == nextToken(Lexer)
       IN /\ input' = r.l.input
          /\ position' = r.l.position
          /\ readPosition' = r.l.readPosition
          /\ ch' = r.l.ch
          /\ reads' = r.l.reads
          /\ slices' = r.l.slices
          /\ advances' = r.l.advances
          /\ peeks' = r.l.peeks
          /\ trace' = Append(trace, [tok |-> r.tok, pre |-> position,
                                     start |-> r.start, end |-> r.l.position,
                                     chEnd |-> r.l.ch])
    /\ UNCHANGED <<small, traceSmall>>

Next == NextToken

Spec == Init /\ [][Next]_vars

(* The two snapshots run on the same input, called in turn: the larger     *)
(* one first, then the smaller one.                                        *)
InitPair == \E in \in InputsPair : Start(in)

NextTokenLarge == Len(traceSmall) = Len(trace) /\ NextToken

NextTokenSmall ==
    /\ Len(traceSmall) < Len(trace)
    /\ LET r == nextTokenSmall(small)
       IN /\ small' = r.l
          /\ traceSmall' = Append(traceSmall,
                [tok |-> r.tok, pre |-> small.position, start |-> r.start,
                 end |-> r.l.position, chEnd |-> r.l.ch])
    /\ UNCHANGED <<input, position, readPosition, ch, trace, reads, slices,
                   advances, peeks>>

NextPair == NextTokenLarge \/ NextTokenSmall

SpecPair == InitPair /\ [][NextPair]_vars

(* ---------------- vocabulary of the properties ---------------- *)
Whitespace == {32, 9, 10, 13}
Letters == (65..90) \cup (97..122) \cup {95}
Digits == 48..57
OperatorChars == {61, 43, 45, 33, 42, 47, 60, 62, 44, 59, 40, 41, 123, 125}

(* the byte at Go index i of the input *)
At(i) == input[i + 1]

(* first Go index j >= i at which the run of class C starting at i stops *)
RunEnd(i, C) ==
    CHOOSE j \in i..Len(input) :
       /\ (j = Len(input) \/ At(j) \notin C)
       /\ \A k \in i..(j - 1) : At(k) \in C

Calls == 1..Len(trace)

(* entries of the trace whose token starts on a byte of the input *)
OnByte(i) == trace[i].start < Len(input)

(* number of the first call that returned EOF, 0 if there is none yet *)
FirstEof ==
    IF \E i \in Calls : trace[i].tok.Type = EOF
    THEN CHOOSE i \in Calls : /\ trace[i].tok.Type = EOF
                              /\ \A k \in 1..(i - 1) : trace[k].tok.Type # EOF
    ELSE 0

RECURSIVE Concat(_, _)
Concat(f, n) == IF n = 0 THEN <<>> ELSE Concat(f, n - 1) \o f[n].tok.Literal

RECURSIVE Strip(_)
Strip(s) ==
    IF s = <<>> THEN <<>>
    ELSE IF Head(s) \in Whitespace THEN Strip(Tail(s))
    ELSE <<Head(s)>> \o Strip(Tail(s))

(* the first n tokens returned by a lexer l *)
RECURSIVE tokensFrom(_, _)
tokensFrom(l, n) ==
    IF n = 0 THEN <<>>
    ELSE LET r == nextToken(l) IN <<r.tok>> \o tokensFrom(r.l, n - 1)

(* C1: once a NextToken call has returned EOF, every later call on the     *)
(* same lexer returns EOF, for every input byte string.                    *)
C1_EofIsFinal ==
    \A i \in Calls : \A j \in Calls :
       (i < j /\ trace[i].tok.Type = EOF) => trace[j].tok.Type = EOF

(* C2: every index read from the input by readChar and peekChar is inside  *)
(* the input, and every slice taken by readIdentifier and readNumber has   *)
(* 0 <= start <= end <= len(input), also for the empty input and for calls *)
(* made after EOF.                                                         *)
C2_NoOutOfBounds ==
    /\ \A i \in reads : 0 <= i /\ i < Len(input)
    /\ \A s \in slices : 0 <= s[1] /\ s[1] <= s[2] /\ s[2] <= Len(input)

C2_Witness ==
    /\ reads # {}
    /\ slices # {}
    /\ \E i \in Calls : i < Len(trace) /\ trace[i].tok.Type = EOF

(* C3: a call that returns a token other than EOF moves position forward   *)
(* by at least 1, and EOF is returned within the first len(input)+1 calls. *)
C3_EofWithinBound ==
    /\ \A i \in Calls :
          trace[i].tok.Type # EOF => trace[i].end >= trace[i].pre + 1
    /\ Len(trace) >= Len(input) + 1 =>
          \E i \in 1..(Len(input) + 1) : trace[i].tok.Type = EOF

C3_Witness ==
    /\ Len(input) >= 2
    /\ Len(trace) = Len(input) + 1
    /\ trace[Len(trace)].tok.Type = EOF
    /\ \A i \in 1..(Len(trace) - 1) : trace[i].tok.Type # EOF

(* C4: on '=' (resp. '!') followed by '=' one EQ "==" (resp. NOT_EQ "!=")  *)
(* token is returned and two bytes are consumed; followed by anything else *)
(* or by the end of the input one ASSIGN "=" (resp. BANG "!") token is     *)
(* returned and one byte is consumed; "===" gives EQ, ASSIGN, EOF.         *)
C4_TwoCharOperators ==
    /\ \A i \in Calls :
          (OnByte(i) /\ At(trace[i].start) \in {61, 33}) =>
             LET s == trace[i].start
                 c == At(s)
                 paired == s + 1 < Len(input) /\ At(s + 1) = 61
             IN IF paired
                THEN /\ trace[i].tok = [Type |-> IF c = 61 THEN EQ ELSE NOT_EQ,
                                        Literal |-> <<c, 61>>]
                     /\ trace[i].end = s + 2
                ELSE /\ trace[i].tok = [Type |-> IF c = 61 THEN ASSIGN ELSE BANG,
                                        Literal |-> <<c>>]
                     /\ trace[i].end = s + 1
    /\ (input = <<61, 61, 61>> /\ Len(trace) >= 3) =>
          /\ trace[1].tok = [Type |-> EQ, Literal |-> <<61, 61>>]
          /\ trace[2].tok = [Type |-> ASSIGN, Literal |-> <<61>>]
          /\ trace[3].tok = [Type |-> EOF, Literal |-> <<>>]

C4_Witness == input = <<61, 61, 61>> /\ Len(trace) = 3

(* C5: an identifier-shaped text is FUNCTION iff it is exactly "fn", LET   *)
(* iff it is exactly "let", and IDENT otherwise; no IDENT token has text   *)
(* "fn" or "let" and every FUNCTION/LET token has exactly that text.       *)
C5_KeywordsExact ==
    \A i \in Calls :
       LET t == trace[i].tok
       IN /\ (OnByte(i) /\ At(trace[i].start) \in Letters) =>
                /\ t.Type = FUNCTION <=> t.Literal = <<102, 110>>
                /\ t.Type = LET_ <=> t.Literal = <<108, 101, 116>>
                /\ t.Literal \notin {<<102, 110>>, <<108, 101, 116>>}
                      => t.Type = IDENT
          /\ t.Type = IDENT => t.Literal \notin {<<102, 110>>, <<108, 101, 116>>}
          /\ t.Type = FUNCTION => t.Literal = <<102, 110>>
          /\ t.Type = LET_ => t.Literal = <<108, 101, 116>>

C5_Witness ==
    /\ input = <<102, 110, 120>>
    /\ Len(trace) = 1
    /\ trace[1].tok = [Type |-> IDENT, Literal |-> <<102, 110, 120>>]

(* C6: the tokens returned up to the first EOF are in source order, the    *)
(* text of each is byte for byte the slice of the input it consumed, and   *)
(* the concatenation of the texts is the input with space, tab, newline    *)
(* and carriage return removed.                                            *)
C6_Lossless ==
    /\ \A i \in Calls :
          (FirstEof = 0 \/ i < FirstEof) =>
             /\ trace[i].tok.Literal =
                   SubSeq(input, trace[i].start + 1, trace[i].end)
             /\ i > 1 => trace[i - 1].end <= trace[i].start
    /\ FirstEof # 0 => Concat(trace, FirstEof - 1) = Strip(input)

(* C7: on a digit NextToken returns INT whose text is the maximal run of   *)
(* digits starting there and leaves the cursor on the first byte after the *)
(* run; a '-' is always its own MINUS token, never part of the literal.    *)
C7_IntegerLiterals ==
    \A i \in Calls :
       LET s == trace[i].start
       IN /\ (OnByte(i) /\ At(s) \in Digits) =>
                LET e == RunEnd(s, Digits)
                IN /\ trace[i].tok = [Type |-> INT,
                                      Literal |-> SubSeq(input, s + 1, e)]
                   /\ trace[i].end = e
                   /\ trace[i].chEnd = IF e < Len(input) THEN At(e) ELSE 0
          /\ (OnByte(i) /\ At(s) = 45) =>
                /\ trace[i].tok = [Type |-> MINUS, Literal |-> <<45>>]
                /\ trace[i].end = s + 1
          /\ trace[i].tok.Type = INT =>
                \A k \in 1..Len(trace[i].tok.Literal) :
                   trace[i].tok.Literal[k] \in Digits

C7_Witness ==
    /\ input = <<45, 53, 53>>
    /\ Len(trace) = 2
    /\ trace[1].tok.Type = MINUS
    /\ trace[2].tok = [Type |-> INT, Literal |-> <<53, 53>>]

(* C8: on a letter or underscore NextToken returns a token whose text is   *)
(* the maximal run of letters/underscores starting there (a digit ends the *)
(* run) and returns with the cursor on the first byte past the run, which  *)
(* is where the next call starts.                                          *)
C8_Identifiers ==
    \A i \in Calls :
       LET s == trace[i].start
       IN (OnByte(i) /\ At(s) \in Letters) =>
             LET e == RunEnd(s, Letters)
             IN /\ trace[i].tok.Type \in {IDENT, FUNCTION, LET_}
                /\ trace[i].tok.Literal = SubSeq(input, s + 1, e)
                /\ trace[i].end = e
                /\ trace[i].chEnd = IF e < Len(input) THEN At(e) ELSE 0
                /\ i < Len(trace) => trace[i + 1].pre = e

C8_Witness ==
    /\ input = <<120, 53>>
    /\ Len(trace) = 2
    /\ trace[1].tok = [Type |-> IDENT, Literal |-> <<120>>]
    /\ trace[2].tok = [Type |-> INT, Literal |-> <<53>>]

(* C9: on every input byte that is not whitespace, letter, underscore,     *)
(* digit or operator/punctuation NextToken returns one ILLEGAL token whose *)
(* text is that single byte and advances past exactly that byte, and the   *)
(* later calls return what a lexer built on the rest of the input returns. *)
C9_IllegalContinues ==
    \A i \in Calls :
       LET s == trace[i].start
       IN (OnByte(i) /\ At(s) \notin
              (Whitespace \cup Letters \cup Digits \cup OperatorChars)) =>
             /\ trace[i].tok = [Type |-> ILLEGAL, Literal |-> <<At(s)>>]
             /\ trace[i].end = s + 1
             /\ \A j \in (i + 1)..Len(trace) :
                   trace[j].tok =
                      tokensFrom(New(SubSeq(input, s + 2, Len(input))),
                                 j - i)[j - i]

(* C10: for an input made only of space, tab, newline and carriage return  *)
(* (the empty input included) every call returns EOF with empty text.      *)
C10_WhitespaceOnly ==
    (\A k \in 1..Len(input) : input[k] \in Whitespace) =>
       \A i \in Calls : trace[i].tok = [Type |-> EOF, Literal |-> <<>>]

C10_Witness ==
    /\ Len(input) >= 2
    /\ \A k \in 1..Len(input) : input[k] \in Whitespace
    /\ \E k \in 1..Len(input) : input[k] = 13
    /\ Len(trace) >= 2
    /\ trace[1].tok = [Type |-> EOF, Literal |-> <<>>]

(* C11: a NextToken call made with ch equal to the sentinel 0 returns EOF  *)
(* with empty text and leaves position, readPosition and ch as they were.  *)
C11_EofDoesNotAdvance ==
    [][ch = 0 =>
          /\ trace'[Len(trace')].tok = [Type |-> EOF, Literal |-> <<>>]
          /\ position' = position
          /\ readPosition' = readPosition
          /\ ch' = ch]_vars

(* C12: in every state after construction, for inputs over the full byte   *)
(* alphabet, ch is the sentinel 0 iff readPosition > len(input).           *)
C12_SentinelIffPastEnd == (ch = 0) <=> (readPosition > Len(input))

(* C13: readPosition = position + 1 in every state after construction,     *)
(* between and after any sequence of NextToken calls.                      *)
C13_ReadPositionAhead == readPosition = position + 1

C13_Witness ==
    /\ Len(input) >= 1
    /\ Len(trace) >= 2
    /\ position > Len(input)

(* C14: position and readPosition never decrease, each changes by exactly  *)
(* 1 per call of readChar and by nothing else, ch changes only when        *)
(* readChar ran, and the input is never changed.                           *)
C14_ForwardOnly ==
    /\ [](readPosition = advances /\ position = advances - 1)
    /\ [][/\ input' = input
          /\ position' >= position
          /\ readPosition' >= readPosition
          /\ position' - position = advances' - advances
          /\ readPosition' - readPosition = advances' - advances
          /\ (ch' # ch => advances' > advances)]_vars

C14_Witness ==
    /\ Len(trace) >= 2
    /\ trace[1].end - trace[1].pre >= 2
    /\ trace[2].end - trace[2].pre = 1
    /\ position = advances - 1

(* C15: on an input with none of '-', '!', '*', '/', '<', '>' and no two   *)
(* adjacent '=', the smaller and the larger snapshot return the same token *)
(* at every call and have the same cursor after it; where the larger       *)
(* returns one of its extra operator tokens the smaller returns ILLEGAL    *)
(* for that byte, and two ASSIGN tokens for "==".                          *)
ExtraOps == {45, 33, 42, 47, 60, 62}

Plain ==
    /\ \A k \in 1..Len(input) : input[k] \notin ExtraOps
    /\ \A k \in 1..(Len(input) - 1) : ~(input[k] = 61 /\ input[k + 1] = 61)

C15_SnapshotsAgree ==
    /\ Plain =>
          /\ \A i \in 1..Len(traceSmall) : traceSmall[i] = trace[i]
          /\ Len(traceSmall) = Len(trace) => cursor(small) = cursor(Lexer)
    /\ \A i \in Calls :
          LET s == trace[i].start
              t == trace[i].tok
          IN (/\ t.Type \in {MINUS, BANG, ASTERISK, SLASH, LT, GT, NOT_EQ, EQ}
              /\ small.position > s) =>
                \E j \in 1..Len(traceSmall) :
                   /\ traceSmall[j].start = s
                   /\ traceSmall[j].end = s + 1
                   /\ traceSmall[j].tok =
                         IF t.Type = EQ
                         THEN [Type |-> ASSIGN, Literal |-> <<61>>]
                         ELSE [Type |-> ILLEGAL, Literal |-> <<At(s)>>]
                   /\ (t.Type \in {EQ, NOT_EQ} /\ j < Len(traceSmall)) =>
                         /\ traceSmall[j + 1].start = s + 1
                         /\ traceSmall[j + 1].tok =
                               [Type |-> ASSIGN, Literal |-> <<61>>]

C15_Witness ==
    /\ input = <<61, 61, 45>>
    /\ Len(trace) = 3
    /\ Len(traceSmall) = 3
    /\ trace[2].tok.Type = MINUS
    /\ traceSmall[3].tok.Type = ILLEGAL

(* C16: after New(input) position = 0, readPosition = 1 and ch is input[0] *)
(* for a non-empty input and the sentinel 0 for the empty input, so that   *)
(* the first NextToken on the empty input returns EOF.                     *)
C16_StartState ==
    /\ Len(trace) = 0 =>
          /\ position = 0
          /\ readPosition = 1
          /\ ch = IF input # <<>> THEN input[1] ELSE 0
    /\ (input = <<>> /\ Len(trace) >= 1) =>
          trace[1].tok = [Type |-> EOF, Literal |-> <<>>]

C16_Witness ==
    /\ Len(trace) = 0
    /\ input # <<>>
    /\ ch = input[1]
    /\ ch # 0

(* C17: peekChar leaves input, position, readPosition and ch unchanged,    *)
(* returns input[readPosition] when readPosition < len(input) and 0        *)
(* otherwise, and NextToken calls it only when ch is '=' or '!'.           *)
C17_PeekReadOnly ==
    \A p \in peeks :
       /\ p.same
       /\ p.val = IF p.readPosition < Len(input)
                  THEN input[p.readPosition + 1] ELSE 0
       /\ p.ch \in {61, 33}

C17_Witness ==
    /\ \E p \in peeks : p.readPosition < Len(input) /\ p.val = 61
    /\ \E p \in peeks : p.readPosition >= Len(input) /\ p.val = 0

====
